---- MODULE Spec2Model ----
(***************************************************************************)
(* shardmap: a sharded, thread-safe hash map.                              *)
(*                                                                         *)
(* Two variants of the Map type live in the repository:                    *)
(*   - the string-keyed Map (New builds the shard table eagerly; Set,      *)
(*     SetAccept, Get, Delete, DeleteAccept, Len, Clear, Range);           *)
(*   - the interface{}-keyed Map (the shard table is built on first use    *)
(*     under a sync.Once; Store, Load, LoadOrStore, Delete, Range).        *)
(* Each goroutine is a thread t whose position in the operation it runs    *)
(* is th[t].pc; one step is one lock operation or the statements between   *)
(* two lock operations.                                                    *)
(***************************************************************************)
EXTENDS Integers, FiniteSets, TLC

\* ---------------------------------------------------------------- bounds
NumThreads == 2
MaxVal == 1
NumCPU == 1

Threads == 1..NumThreads
Keys == {"a", "b"}
\* runtime.memhash under the process's seed, one function per seed looked at:
\* one under which the keys share a shard, one under which they do not
\* (18 has a bit above the mask of 16 shards)
HashFns == {[k \in Keys |-> 18], [k \in Keys |-> IF k = "a" THEN 1 ELSE 18]}

\* calls a thread makes in the runs that are checked for termination
MaxCalls == 1

\* ------------------------------------------------------ program constants
ShardsPerCPU == 16
\* the nil interface value
Nil == 0
Values == Nil..MaxVal

\* accept predicates a caller may pass: none, or a function of (prev, replaced)
AcceptFns == {"nil", "never", "ifReplaced"}
\* the methods an accept predicate may call on the map before it returns
InnerOps == {"Get", "Set", "Delete", "SetAccept", "DeleteAccept",
             "Len", "Clear", "Range"}
\* Range visitors: one that always continues, one that stops at its first call
IterFns == {"all", "first"}
\* the same two visitors, each also collecting the entries it is passed
CollectFns == {"collect", "collectFirst"}
\* an accept predicate or a Range visitor that panics when it is called
PanicFns == {"panics"}
\* keys of the interface{} Map that are not strings: a []byte with the bytes
\* of a string key, and a value of a type choose has no case for
ByteKeys == {"[]byte(a)"}
Unsupported == {"struct{}{}"}

VARIABLES
    variant,   \* "string" | "lazy": which Map type the program uses
    shards,    \* m.shards
    mus,       \* m.mus: per shard, the RWMutex state
    maps,      \* m.maps: per shard, the Go map (a function on its keys)
    made,      \* the indices i whose m.maps[i] is a non-nil map
    memhash,   \* runtime.memhash under this process's seed
    once,      \* m.init (sync.Once): done flag, holder of its mutex; history:
               \* the runs of the body f and the thread of the last run
    th,        \* per thread: pc and the locals of the running operation
    seq,       \* history: per shard, the map a sequential execution of the
               \* operations, in lock-acquisition order, would hold
    calls      \* per thread, the calls its program still makes (Unlimited:
               \* it goes on calling for ever)

vars == <<variant, shards, mus, maps, made, memhash, once, th, seq, calls>>

\* ------------------------------------------------------------ Go maps
EmptyMap == <<>>

\* v, ok = mp[k]
MapGet(mp, k) == IF k \in DOMAIN mp THEN <<mp[k], TRUE>> ELSE <<Nil, FALSE>>

\* mp[k] = v
MapSet(mp, k, v) == [x \in (DOMAIN mp) \cup {k} |-> IF x = k THEN v ELSE mp[x]]

\* delete(mp, k)
MapDelete(mp, k) == [x \in (DOMAIN mp) \ {k} |-> mp[x]]

\* len(mp)
MapLen(mp) == Cardinality(DOMAIN mp)

\* ------------------------------------------------------------ routing
RECURSIVE BitAnd(_, _)
BitAnd(a, b) ==
    IF a = 0 \/ b = 0 THEN 0
    ELSE (a % 2) * (b % 2) + 2 * BitAnd(a \div 2, b \div 2)

memHashString(str) == memhash[str]

\* string(data)
StringOf(data) == IF data = "[]byte(a)" THEN "a" ELSE "b"

\* memhash over the bytes of data, as memHashString over those of a string
memHash(data) == memhash[StringOf(data)]

\* the hash is masked with m.shards where choose has m.shards-1
chooseMaskShards(key) == BitAnd(memHashString(key), shards)

\* int(memHashString(key) & uint64(m.shards-1)); with m.shards = 0 the mask
\* is uint64(-1), all ones
choose(key) ==
    IF shards = 0 THEN memHashString(key)
    ELSE BitAnd(memHashString(key), shards - 1)

\* the shard index choose panics instead of returning
NoShard == 0 - 1

\* choose of the interface{} Map: switch k := key.(type) { ... case string:
\* h = memHashString(k); case []byte: h = memHash(k);
\* default: panic("unsupported key type in shardmap.Map") }
chooseInterface(key) ==
    CASE key \in Keys -> choose(key)
      [] key \in ByteKeys ->
            IF shards = 0 THEN memHash(key) ELSE BitAnd(memHash(key), shards - 1)
      [] OTHER -> NoShard

\* a Go map with interface{} keys takes a key whose dynamic type is
\* comparable; for a []byte every access, assignment and delete panics
\* (runtime error: hash of unhashable type []uint8)
Hashable(key) == key \notin ByteKeys

RECURSIVE growShards(_, _)
growShards(s, n) == IF s < n THEN growShards(2 * s, n) ELSE s

\* m.shards = 1; for m.shards < runtime.NumCPU()*16 { m.shards *= 2 }
initShards == growShards(1, NumCPU * ShardsPerCPU)

\* the keys routed to shard i
KeysOf(i) == {k \in Keys : choose(k) = i}

\* ------------------------------------------------------------ sync.RWMutex
\* w: the thread that has passed rw.w.Lock() (a pending or holding writer),
\* x: that writer has been granted the lock (the readers have drained),
\* r: the threads holding the lock shared.
Unlocked == [w |-> 0, x |-> FALSE, r |-> {}]

\* one lock for the whole map: Lock() waits for the writers of every shard
CanLockGlobal(i) == \A j \in DOMAIN mus : mus[j].w = 0

\* rw.w is free: Lock() can announce itself
CanLock(i) == mus[i].w = 0

\* RLock() blocks while a writer is pending or holding
CanRLock(i) == mus[i].w = 0

\* a pending writer is granted the lock once the readers are gone
Drained(i) == mus[i].r = {}

HoldsX(t, i) == i \in DOMAIN mus /\ mus[i].w = t /\ mus[i].x
HoldsR(t, i) == i \in DOMAIN mus /\ t \in mus[i].r

\* ------------------------------------------------------------ threads
\* locals of the running operation (prev/replaced also hold value/ok,
\* prev/deleted and actual/loaded); for an accept predicate that calls back
\* into the map: inner, the method it calls, ikey, that call's key, ii, that
\* call's loop index, ipc, "lock" until the call has returned; and history
\* fields:
\*   snap: the shard's map when the operation was granted the lock,
\*   exp:  the result the sequential map gave at that moment,
\*   rt:   "Set"/"Delete" when this Get is called right after the caller's
\*         Set/Delete of the same key returned (value keeps what was set),
\*   mark: the kinds of writes to that key committed by others since then,
\*   visited: the entries a collecting Range visitor has been passed,
\*   quiet: no other goroutine was running or had calls left to make when
\*          this operation was called,
\*   reset: the keys of the Sets and SetAccepts that were granted the lock
\*          of a shard after this Clear had cleared it.
Idle == [pc |-> "idle", op |-> "none", key |-> "a", value |-> Nil,
         accept |-> "nil", shard |-> 0, prev |-> Nil, replaced |-> FALSE,
         i |-> 0, l |-> 0, done |-> FALSE, seen |-> {},
         snap |-> EmptyMap, exp |-> <<Nil, FALSE>>, rt |-> "none", mark |-> {},
         visited |-> {}, quiet |-> FALSE, reset |-> {},
         inner |-> "none", ikey |-> "a", ii |-> 0, ipc |-> "none"]

Step(t, r) == th' = [th EXCEPT ![t] = r]

Unlimited == 0 - 1

\* thread t's program makes one more call
Calling(t) ==
    /\ calls[t] # 0
    /\ calls' = [calls EXCEPT ![t] = IF @ > 0 THEN @ - 1 ELSE @]

\* a committed write of kind "set" or "del" to the keys ks is noted by every
\* Get that follows a returned Set/Delete of one of them
Marked(r, ks, kind) ==
    IF r.rt \notin {"none", "clear"} /\ r.key \in ks
    THEN [r EXCEPT !.mark = @ \cup {kind}]
    ELSE r

StepW(t, r, ks, kind) ==
    th' = [u \in Threads |-> IF u = t THEN r ELSE Marked(th[u], ks, kind)]

\* a LoadOrStore of key by thread t that gets the results res inside its
\* critical section is noted by every call on that key whose caller follows
\* the calls concurrent with its own (rt is not "none")
Noted(r, t, key, res) ==
    IF r.rt # "none" /\ r.key = key /\ r.pc # "idle"
    THEN [r EXCEPT !.seen = @ \cup {<<t, res[1], res[2]>>}]
    ELSE r

StepL(t, r, key, res) ==
    th' = [u \in Threads |-> IF u = t THEN r ELSE Noted(th[u], t, key, res)]

\* accept(prev, replaced)
AcceptCall(f, prev, replaced) ==
    CASE f = "never" -> FALSE
      [] f = "ifReplaced" -> replaced
      [] OTHER -> TRUE

\* accept == nil || accept(prev, replaced)
Accepted(f, prev, replaced) == f = "nil" \/ AcceptCall(f, prev, replaced)

\* the call of f panics
Panics(f) == f \in PanicFns

\* iter(key, value) at its n-th call (n counts from 1)
IterCall(f, n) ==
    CASE f \in {"first", "collectFirst"} -> FALSE
      [] OTHER -> TRUE

\* what a collecting visitor holds after it has been passed (k, v)
Collect(r, k, v) ==
    IF r.accept \in CollectFns THEN [r EXCEPT !.visited = @ \cup {<<k, v>>}] ELSE r

\* the sequential map: operation r applied atomically to mp, giving
\* <<the map afterwards, <<the first result, the second result>> >>; an
\* operation on a key the Go map rejects leaves the map as it is
SeqApply(r, mp) ==
    LET old == MapGet(mp, r.key)
        ok == Accepted(r.accept, old[1], old[2])
    IN  CASE ~Hashable(r.key) -> <<mp, <<Nil, FALSE>> >>
          [] r.op \in {"Set"} -> <<MapSet(mp, r.key, r.value), old>>
          [] r.op = "SetAccept" ->
                IF ok THEN <<MapSet(mp, r.key, r.value), old>>
                ELSE <<mp, <<Nil, FALSE>> >>
          [] r.op \in {"Delete"} -> <<MapDelete(mp, r.key), old>>
          [] r.op = "DeleteAccept" ->
                IF ok THEN <<MapDelete(mp, r.key), old>>
                ELSE <<mp, <<Nil, FALSE>> >>
          [] r.op = "Clear" -> <<EmptyMap, <<Nil, FALSE>> >>
          [] r.op = "Store" -> <<MapSet(mp, r.key, r.value), <<Nil, FALSE>> >>
          [] r.op = "DeleteLazy" -> <<MapDelete(mp, r.key), <<Nil, FALSE>> >>
          [] r.op = "LoadOrStore" ->
                IF old[2] THEN <<mp, old>>
                ELSE <<MapSet(mp, r.key, r.value), <<r.value, FALSE>> >>
          [] r.op \in {"Get", "Load"} -> <<mp, old>>
          [] OTHER -> <<mp, <<Nil, FALSE>> >>

\* a Clear whose caller follows the concurrent Sets notes the key of a Set or
\* SetAccept (record r) that is granted the lock of a shard i it has cleared
Relocked(c, i, r) ==
    IF c.rt = "clear" /\ r.op \in {"Set", "SetAccept"} /\ i < c.i
    THEN [c EXCEPT !.reset = @ \cup {r.key}]
    ELSE c

\* thread t, whose record becomes r, is granted shard i's lock: the history
\* fields are taken and the sequential map makes its step
Grant(t, i, r) ==
    LET a == SeqApply(r, seq[i])
    IN  /\ seq' = [seq EXCEPT ![i] = a[1]]
        /\ th' = [u \in Threads |->
                    IF u = t THEN [r EXCEPT !.snap = maps[i], !.exp = a[2]]
                    ELSE Relocked(th[u], i, r)]

\* m.mus[i].Lock(): announce on rw.w, and hold at once when no reader is in
Lock(t, i) ==
    /\ i \in DOMAIN mus
    /\ CanLock(i)
    /\ mus' = [mus EXCEPT ![i] = [@ EXCEPT !.w = t, !.x = Drained(i)]]
    /\ IF Drained(i)
       THEN Grant(t, i, [th[t] EXCEPT !.pc = "cs"])
       ELSE Step(t, [th[t] EXCEPT !.pc = "drain"]) /\ seq' = seq
    /\ UNCHANGED <<calls, variant, shards, maps, made, memhash, once>>

\* m.mus[i].Lock(), second half: the last reader has left
Drain(t, i) ==
    /\ mus[i].w = t /\ ~mus[i].x
    /\ Drained(i)
    /\ mus' = [mus EXCEPT ![i].x = TRUE]
    /\ Grant(t, i, [th[t] EXCEPT !.pc = "cs"])
    /\ UNCHANGED <<calls, variant, shards, maps, made, memhash, once>>

\* m.mus[i].RLock()
RLock(t, i) ==
    /\ i \in DOMAIN mus
    /\ CanRLock(i)
    /\ mus' = [mus EXCEPT ![i].r = @ \cup {t}]
    /\ Grant(t, i, [th[t] EXCEPT !.pc = "cs"])
    /\ UNCHANGED <<calls, variant, shards, maps, made, memhash, once>>

\* m.mus[i].Unlock()
UnlockMu(i) == mus' = [mus EXCEPT ![i] = [@ EXCEPT !.w = 0, !.x = FALSE]]

\* m.mus[i].RUnlock()
RUnlockMu(t, i) == mus' = [mus EXCEPT ![i].r = @ \ {t}]

\* the caller goes on with Get(key) as soon as its Set/Delete has returned
GetAfter(r) ==
    [Idle EXCEPT !.pc = "rlock", !.op = "Get", !.key = r.key, !.shard = r.shard,
                 !.value = r.value, !.rt = r.op]

\* ------------------------------------------------------------ construction
\* New: m := &Map{cap: cap}; m.initDo()
NewString ==
    /\ variant = "string"
    /\ shards = initShards
    /\ mus = [i \in 0..(initShards - 1) |-> Unlocked]
    /\ maps = [i \in 0..(initShards - 1) |-> EmptyMap]
    /\ made = 0..(initShards - 1)
    /\ memhash \in HashFns
    /\ once = [done |-> 0, m |-> 0, runs |-> 0, by |-> 0]
    /\ th = [t \in Threads |-> Idle]
    /\ seq = [i \in 0..(initShards - 1) |-> EmptyMap]

InitString == NewString /\ calls = [t \in Threads |-> Unlimited]

\* programs that make MaxCalls calls per thread
InitBounded == NewString /\ calls = [t \in Threads |-> MaxCalls]

\* what the map may hold after earlier Sets and Deletes: any keys, any values
Contents == UNION {[S -> Values] : S \in SUBSET Keys}

\* the part of the contents c that shard i stores
Stored(c, i) == [k \in {x \in DOMAIN c : choose(x) = i} |-> c[k]]

\* a map built by New and filled by earlier calls, used by programs that make
\* MaxCalls calls per thread
InitFilled ==
    /\ variant = "string"
    /\ shards = initShards
    /\ mus = [i \in 0..(initShards - 1) |-> Unlocked]
    /\ made = 0..(initShards - 1)
    /\ memhash \in HashFns
    /\ \E c \in Contents :
          /\ maps = [i \in 0..(initShards - 1) |-> Stored(c, i)]
          /\ seq = [i \in 0..(initShards - 1) |-> Stored(c, i)]
    /\ once = [done |-> 0, m |-> 0, runs |-> 0, by |-> 0]
    /\ th = [t \in Threads |-> Idle]
    /\ calls = [t \in Threads |-> MaxCalls]

\* a program in which one goroutine makes all the calls
InitSingle ==
    /\ NewString
    /\ calls = [t \in Threads |-> IF t = 1 THEN Unlimited ELSE 0]

\* ------------------------------------------------- predicates calling back
\* accept(prev, replaced) returns: at once, or when the call it makes on the
\* map has returned
PredicateReturns(t) == th[t].inner = "none" \/ th[t].ipc = "returned"

\* the shard whose lock the predicate's call asks for next: the shard of its
\* key, or the shard its loop is at
InnerShard(r) ==
    IF r.inner \in {"Len", "Clear", "Range"} THEN r.ii ELSE choose(r.ikey)

\* a lock that lets the goroutine holding it exclusively in again
InnerCanEnterOwn(t) ==
    LET j == InnerShard(th[t])
    IN  \/ mus[j].w = t
        \/ IF th[t].inner \in {"Get", "Range"} THEN CanRLock(j)
           ELSE CanLock(j) /\ Drained(j)

\* m.mus[j].RLock() (Get, Range) or m.mus[j].Lock() (the others) called by
\* the predicate returns only when the lock is free for it; sync.RWMutex
\* knows no owner, so the goroutine's own exclusive hold blocks it as well
InnerCanEnter(t) ==
    LET j == InnerShard(th[t])
    IN  IF th[t].inner \in {"Get", "Range"} THEN CanRLock(j)
        ELSE CanLock(j) /\ Drained(j)

\* what the predicate's call does to the map mp of the shard it has locked
InnerApply(r, mp) ==
    CASE r.inner \in {"Set", "SetAccept"} -> MapSet(mp, r.ikey, r.value)
      [] r.inner \in {"Delete", "DeleteAccept"} -> MapDelete(mp, r.ikey)
      [] r.inner = "Clear" -> EmptyMap
      [] OTHER -> mp

\* the call the predicate makes: it takes shard j's lock, runs the method's
\* critical section and releases the lock, as one step; a single-key method
\* then returns, Len, Clear and Range go on to the next shard
Reenter(t) ==
    LET r == th[t]
        j == InnerShard(r)
        after == IF r.inner \in {"Len", "Clear", "Range"} /\ j + 1 < shards
                 THEN [r EXCEPT !.ii = j + 1]
                 ELSE [r EXCEPT !.ipc = "returned"]
    IN  /\ variant = "string"
        /\ r.pc = "accept" /\ r.inner # "none" /\ r.ipc = "lock"
        /\ InnerCanEnter(t)
        /\ maps' = [maps EXCEPT ![j] = InnerApply(r, @)]
        /\ seq' = [seq EXCEPT ![j] = InnerApply(r, @)]
        /\ Step(t, after)
        /\ UNCHANGED <<calls, variant, shards, mus, made, memhash, once>>

\* a goroutine calls SetAccept or DeleteAccept with a predicate that calls a
\* method of the map: a single-key method on a key of the shard the
\* predicate runs under, or Len, Clear or Range
CallReentrant(t) ==
    /\ variant = "string"
    /\ th[t].pc = "idle"
    /\ Calling(t)
    /\ \E k \in Keys, f \in AcceptFns \ {"nil"}, c \in InnerOps :
        \E k2 \in KeysOf(choose(k)) :
          \/ \E v \in Values :
                Step(t, [Idle EXCEPT !.pc = "lock", !.op = "SetAccept", !.key = k,
                                     !.value = v, !.accept = f, !.shard = choose(k),
                                     !.inner = c, !.ikey = k2, !.ipc = "lock"])
          \/ Step(t, [Idle EXCEPT !.pc = "lock", !.op = "DeleteAccept", !.key = k,
                                  !.accept = f, !.shard = choose(k),
                                  !.inner = c, !.ikey = k2, !.ipc = "lock"])
    /\ UNCHANGED <<variant, shards, mus, maps, made, memhash, once, seq>>

\* ------------------------------------------------------------ string Map
\* a goroutine calls one of the single-key methods, which start with
\* shard := m.choose(key)
CallKey(t) ==
    /\ variant = "string"
    /\ th[t].pc = "idle"
    /\ Calling(t)
    /\ \/ \E k \in Keys, v \in Values :
            Step(t, [Idle EXCEPT !.pc = "lock", !.op = "Set", !.key = k,
                                 !.value = v, !.shard = choose(k)])
       \/ \E k \in Keys, v \in Values, f \in AcceptFns :
            Step(t, [Idle EXCEPT !.pc = "lock", !.op = "SetAccept", !.key = k,
                                 !.value = v, !.accept = f, !.shard = choose(k)])
       \/ \E k \in Keys :
            Step(t, [Idle EXCEPT !.pc = "rlock", !.op = "Get", !.key = k,
                                 !.shard = choose(k)])
       \/ \E k \in Keys :
            Step(t, [Idle EXCEPT !.pc = "lock", !.op = "Delete", !.key = k,
                                 !.shard = choose(k)])
       \/ \E k \in Keys, f \in AcceptFns :
            Step(t, [Idle EXCEPT !.pc = "lock", !.op = "DeleteAccept", !.key = k,
                                 !.accept = f, !.shard = choose(k)])
    /\ UNCHANGED <<variant, shards, mus, maps, made, memhash, once, seq>>

\* m.mus[shard].RLock() where Set calls Lock()
SetLockShared(t) == RLock(t, th[t].shard)

\* m.mus[shard].Lock()
SetLock(t) == Lock(t, th[t].shard)

\* a key that is present keeps its value
SetWriteIfAbsent(t) ==
    LET s == th[t].shard
        old == MapGet(maps[s], th[t].key)
    IN  /\ maps' = IF old[2] THEN maps
                   ELSE [maps EXCEPT ![s] = MapSet(@, th[t].key, th[t].value)]
        /\ StepW(t, [th[t] EXCEPT !.prev = old[1], !.replaced = old[2],
                                  !.pc = "unlock"], {th[t].key}, "set")

\* the value is installed before the previous one is read
SetWriteThenRead(t) ==
    LET s == th[t].shard
    IN  /\ maps' = [maps EXCEPT ![s] = MapSet(@, th[t].key, th[t].value)]
        /\ StepW(t, [th[t] EXCEPT !.prev = th[t].value, !.replaced = TRUE,
                                  !.pc = "unlock"], {th[t].key}, "set")

\* prev, replaced = m.maps[shard][key]; m.maps[shard][key] = value
SetWrite(t) ==
    LET s == th[t].shard
        old == MapGet(maps[s], th[t].key)
    IN  /\ maps' = [maps EXCEPT ![s] = MapSet(@, th[t].key, th[t].value)]
        /\ StepW(t, [th[t] EXCEPT !.prev = old[1], !.replaced = old[2],
                                  !.pc = "unlock"], {th[t].key}, "set")

Set(t) ==
    /\ th[t].op = "Set"
    /\ \/ /\ th[t].pc = "lock"
          /\ SetLock(t)
       \/ /\ th[t].pc = "drain"
          /\ Drain(t, th[t].shard)
       \/ /\ th[t].pc = "cs"
          /\ SetWrite(t)
          /\ UNCHANGED <<calls, variant, shards, mus, made, memhash, once, seq>>
       \/ /\ th[t].pc = "unlock"
          /\ UnlockMu(th[t].shard)
          /\ Step(t, Idle) \/ Step(t, GetAfter(th[t]))
          /\ UNCHANGED <<calls, variant, shards, maps, made, memhash, once, seq>>

\* m.mus[shard].RLock() where SetAccept calls Lock()
SetAcceptLockShared(t) == RLock(t, th[t].shard)

\* m.mus[shard].Lock(); defer m.mus[shard].Unlock()
SetAcceptLock(t) == Lock(t, th[t].shard)

\* the lock is released after the write, before accept is called
SetAcceptWriteUnlocks(t) ==
    LET s == th[t].shard
        old == MapGet(maps[s], th[t].key)
    IN  /\ maps' = [maps EXCEPT ![s] = MapSet(@, th[t].key, th[t].value)]
        /\ UnlockMu(s)
        /\ Step(t, [th[t] EXCEPT !.prev = old[1], !.replaced = old[2],
                                 !.pc = "accept"])

\* prev, replaced = m.maps[shard][key]; m.maps[shard][key] = value, the lock
\* staying held
SetAcceptWrite(t) ==
    LET s == th[t].shard
        old == MapGet(maps[s], th[t].key)
    IN  /\ maps' = [maps EXCEPT ![s] = MapSet(@, th[t].key, th[t].value)]
        /\ mus' = mus
        /\ Step(t, [th[t] EXCEPT !.prev = old[1], !.replaced = old[2],
                                 !.pc = "accept"])

\* the previous value nil is taken for "no previous value"
SetAcceptRevertSentinel(mp, key, prev, replaced) ==
    IF prev = Nil THEN MapDelete(mp, key) ELSE MapSet(mp, key, prev)

\* revert unaccepted change: delete the newly set data, or reset updated data
SetAcceptRevert(mp, key, prev, replaced) ==
    IF ~replaced THEN MapDelete(mp, key) ELSE MapSet(mp, key, prev)

\* the rejecting path returns without unlocking (Unlock is not deferred)
SetAcceptDecideLeaks(t) ==
    LET s == th[t].shard
    IN  IF ~Accepted(th[t].accept, th[t].prev, th[t].replaced)
        THEN /\ maps' = [maps EXCEPT ![s] =
                    SetAcceptRevert(@, th[t].key, th[t].prev, th[t].replaced)]
             /\ Step(t, Idle)
        ELSE /\ maps' = maps
             /\ StepW(t, [th[t] EXCEPT !.pc = "unlock"], {th[t].key}, "set")

\* if accept != nil { if !accept(prev, replaced) { revert; prev, replaced = nil, false } }
SetAcceptDecide(t) ==
    LET s == th[t].shard
    IN  IF ~Accepted(th[t].accept, th[t].prev, th[t].replaced)
        THEN /\ maps' = [maps EXCEPT ![s] =
                    SetAcceptRevert(@, th[t].key, th[t].prev, th[t].replaced)]
             /\ Step(t, [th[t] EXCEPT !.prev = Nil, !.replaced = FALSE,
                                      !.pc = "unlock"])
        ELSE /\ maps' = maps
             /\ StepW(t, [th[t] EXCEPT !.pc = "unlock"], {th[t].key}, "set")

SetAccept(t) ==
    /\ th[t].op = "SetAccept"
    /\ \/ /\ th[t].pc = "lock"
          /\ SetAcceptLock(t)
       \/ /\ th[t].pc = "drain"
          /\ Drain(t, th[t].shard)
       \/ /\ th[t].pc = "cs"
          /\ SetAcceptWrite(t)
          /\ UNCHANGED <<calls, variant, shards, made, memhash, once, seq>>
       \/ /\ th[t].pc = "accept"
          /\ PredicateReturns(t)
          /\ IF Panics(th[t].accept)
             THEN /\ maps' = maps
                  /\ StepW(t, [th[t] EXCEPT !.pc = "unwind"], {th[t].key}, "set")
             ELSE SetAcceptDecide(t)
          /\ UNCHANGED <<calls, variant, shards, mus, made, memhash, once, seq>>
       \/ /\ th[t].pc = "unlock"
          /\ UnlockMu(th[t].shard)
          /\ Step(t, Idle)
          /\ UNCHANGED <<calls, variant, shards, maps, made, memhash, once, seq>>
       \/ /\ th[t].pc = "unwind"
          /\ UnlockMu(th[t].shard)
          /\ Step(t, [th[t] EXCEPT !.pc = "panicked"])
          /\ UNCHANGED <<calls, variant, shards, maps, made, memhash, once, seq>>

\* value, ok = m.maps[shard][key]
GetRead(t) ==
    LET got == MapGet(maps[th[t].shard], th[t].key)
    IN  Step(t, [th[t] EXCEPT !.prev = got[1], !.replaced = got[2],
                              !.pc = "runlock"])

Get(t) ==
    /\ th[t].op = "Get"
    /\ \/ /\ th[t].pc = "rlock"
          /\ RLock(t, th[t].shard)
       \/ /\ th[t].pc = "cs"
          /\ GetRead(t)
          /\ UNCHANGED <<calls, variant, shards, mus, maps, made, memhash, once, seq>>
       \/ /\ th[t].pc = "runlock"
          /\ RUnlockMu(t, th[t].shard)
          /\ Step(t, Idle)
          /\ UNCHANGED <<calls, variant, shards, maps, made, memhash, once, seq>>

\* the key is read and not deleted
DeleteWriteKeeps(t) ==
    LET s == th[t].shard
        old == MapGet(maps[s], th[t].key)
    IN  /\ maps' = maps
        /\ StepW(t, [th[t] EXCEPT !.prev = old[1], !.replaced = old[2],
                                  !.pc = "unlock"], {th[t].key}, "del")

\* prev, deleted = m.maps[shard][key]; delete(m.maps[shard], key)
DeleteWrite(t) ==
    LET s == th[t].shard
        old == MapGet(maps[s], th[t].key)
    IN  /\ maps' = [maps EXCEPT ![s] = MapDelete(@, th[t].key)]
        /\ StepW(t, [th[t] EXCEPT !.prev = old[1], !.replaced = old[2],
                                  !.pc = "unlock"], {th[t].key}, "del")

Delete(t) ==
    /\ th[t].op = "Delete"
    /\ \/ /\ th[t].pc = "lock"
          /\ Lock(t, th[t].shard)
       \/ /\ th[t].pc = "drain"
          /\ Drain(t, th[t].shard)
       \/ /\ th[t].pc = "cs"
          /\ DeleteWrite(t)
          /\ UNCHANGED <<calls, variant, shards, mus, made, memhash, once, seq>>
       \/ /\ th[t].pc = "unlock"
          /\ UnlockMu(th[t].shard)
          /\ Step(t, Idle) \/ Step(t, GetAfter(th[t]))
          /\ UNCHANGED <<calls, variant, shards, maps, made, memhash, once, seq>>

\* prev, deleted = m.maps[shard][key]; delete(m.maps[shard], key)
DeleteAcceptWrite(t) ==
    LET s == th[t].shard
        old == MapGet(maps[s], th[t].key)
    IN  /\ maps' = [maps EXCEPT ![s] = MapDelete(@, th[t].key)]
        /\ Step(t, [th[t] EXCEPT !.prev = old[1], !.replaced = old[2],
                                 !.pc = "accept"])

\* a previous value nil is taken for "nothing deleted"
DeleteAcceptRevertSentinel(mp, key, prev, deleted) ==
    IF prev # Nil THEN MapSet(mp, key, prev) ELSE mp

\* revert unaccepted change: if deleted { m.maps[shard][key] = prev }
DeleteAcceptRevert(mp, key, prev, deleted) ==
    IF deleted THEN MapSet(mp, key, prev) ELSE mp

\* if accept != nil { if !accept(prev, deleted) { revert; prev, deleted = nil, false } }
DeleteAcceptDecide(t) ==
    LET s == th[t].shard
    IN  IF ~Accepted(th[t].accept, th[t].prev, th[t].replaced)
        THEN /\ maps' = [maps EXCEPT ![s] =
                    DeleteAcceptRevert(@, th[t].key, th[t].prev, th[t].replaced)]
             /\ Step(t, [th[t] EXCEPT !.prev = Nil, !.replaced = FALSE,
                                      !.pc = "unlock"])
        ELSE /\ maps' = maps
             /\ StepW(t, [th[t] EXCEPT !.pc = "unlock"], {th[t].key}, "del")

DeleteAccept(t) ==
    /\ th[t].op = "DeleteAccept"
    /\ \/ /\ th[t].pc = "lock"
          /\ Lock(t, th[t].shard)
       \/ /\ th[t].pc = "drain"
          /\ Drain(t, th[t].shard)
       \/ /\ th[t].pc = "cs"
          /\ DeleteAcceptWrite(t)
          /\ UNCHANGED <<calls, variant, shards, mus, made, memhash, once, seq>>
       \/ /\ th[t].pc = "accept"
          /\ PredicateReturns(t)
          /\ IF Panics(th[t].accept)
             THEN /\ maps' = maps
                  /\ StepW(t, [th[t] EXCEPT !.pc = "unwind"], {th[t].key}, "del")
             ELSE DeleteAcceptDecide(t)
          /\ UNCHANGED <<calls, variant, shards, mus, made, memhash, once, seq>>
       \/ /\ th[t].pc = "unlock"
          /\ UnlockMu(th[t].shard)
          /\ Step(t, Idle)
          /\ UNCHANGED <<calls, variant, shards, maps, made, memhash, once, seq>>
       \/ /\ th[t].pc = "unwind"
          /\ UnlockMu(th[t].shard)
          /\ Step(t, [th[t] EXCEPT !.pc = "panicked"])
          /\ UNCHANGED <<calls, variant, shards, maps, made, memhash, once, seq>>

\* the loop header of Len, Clear and Range: for i := 0; i < m.shards; i++
\* (and Range's "if done { break }"); pc is the lock call of the loop body
ScanEnter(r, i, done, pc) ==
    IF done \/ ~(i < shards) THEN Idle
    ELSE [r EXCEPT !.i = i, !.shard = i, !.pc = pc, !.seen = {},
                   !.snap = EmptyMap]

\* a goroutine calls one of the whole-map methods
CallScan(t) ==
    /\ variant = "string"
    /\ th[t].pc = "idle"
    /\ Calling(t)
    /\ \/ Step(t, ScanEnter([Idle EXCEPT !.op = "Len"], 0, FALSE, "lock"))
       \/ Step(t, ScanEnter([Idle EXCEPT !.op = "Clear"], 0, FALSE, "lock"))
       \/ \E f \in IterFns :
            Step(t, ScanEnter([Idle EXCEPT !.op = "Range", !.accept = f],
                              0, FALSE, "rlock"))
    /\ UNCHANGED <<variant, shards, mus, maps, made, memhash, once, seq>>

\* no other goroutine is running or has calls left to make
Quiescent(t) == \A u \in Threads \ {t} : th[u].pc = "idle" /\ calls[u] = 0

\* a goroutine calls Range with a collecting visitor, or Set or Delete
CallRange(t) ==
    /\ variant = "string"
    /\ th[t].pc = "idle"
    /\ Calling(t)
    /\ \/ \E f \in CollectFns :
            Step(t, ScanEnter([Idle EXCEPT !.op = "Range", !.accept = f,
                                           !.quiet = Quiescent(t)],
                              0, FALSE, "rlock"))
       \/ \E k \in Keys, v \in Values :
            Step(t, [Idle EXCEPT !.pc = "lock", !.op = "Set", !.key = k,
                                 !.value = v, !.shard = choose(k)])
       \/ \E k \in Keys :
            Step(t, [Idle EXCEPT !.pc = "lock", !.op = "Delete", !.key = k,
                                 !.shard = choose(k)])
    /\ UNCHANGED <<variant, shards, mus, maps, made, memhash, once, seq>>

\* l = len(m.maps[i]) where Len has l += len(m.maps[i])
LenOfLastShard(t) ==
    /\ th[t].op = "Len"
    /\ \/ /\ th[t].pc = "lock"
          /\ Lock(t, th[t].i)
       \/ /\ th[t].pc = "drain"
          /\ Drain(t, th[t].i)
       \/ /\ th[t].pc = "cs"
          /\ UnlockMu(th[t].i)
          /\ Step(t, ScanEnter([th[t] EXCEPT !.l = MapLen(maps[th[t].i])],
                               th[t].i + 1, FALSE, "lock"))
          /\ UNCHANGED <<calls, variant, shards, maps, made, memhash, once, seq>>

\* a goroutine calls Clear, whose caller follows what others set meanwhile,
\* or Set or SetAccept
CallClear(t) ==
    /\ variant = "string"
    /\ th[t].pc = "idle"
    /\ Calling(t)
    /\ \/ Step(t, ScanEnter([Idle EXCEPT !.op = "Clear", !.rt = "clear",
                                          !.quiet = Quiescent(t)],
                             0, FALSE, "lock"))
       \/ \E k \in Keys, v \in Values :
            Step(t, [Idle EXCEPT !.pc = "lock", !.op = "Set", !.key = k,
                                 !.value = v, !.shard = choose(k)])
       \/ \E k \in Keys, v \in Values, f \in AcceptFns :
            Step(t, [Idle EXCEPT !.pc = "lock", !.op = "SetAccept", !.key = k,
                                 !.value = v, !.accept = f, !.shard = choose(k)])
    /\ UNCHANGED <<variant, shards, mus, maps, made, memhash, once, seq>>

\* m.mus[i].Lock(); l += len(m.maps[i]); m.mus[i].Unlock()
Len(t) ==
    /\ th[t].op = "Len"
    /\ \/ /\ th[t].pc = "lock"
          /\ Lock(t, th[t].i)
       \/ /\ th[t].pc = "drain"
          /\ Drain(t, th[t].i)
       \/ /\ th[t].pc = "cs"
          /\ UnlockMu(th[t].i)
          /\ Step(t, ScanEnter([th[t] EXCEPT !.l = @ + MapLen(maps[th[t].i])],
                               th[t].i + 1, FALSE, "lock"))
          /\ UNCHANGED <<calls, variant, shards, maps, made, memhash, once, seq>>

\* the shard's storage is not replaced
ClearKeepsEntries(t) ==
    /\ th[t].op = "Clear"
    /\ \/ /\ th[t].pc = "lock"
          /\ Lock(t, th[t].i)
       \/ /\ th[t].pc = "drain"
          /\ Drain(t, th[t].i)
       \/ /\ th[t].pc = "cs"
          /\ maps' = maps
          /\ UnlockMu(th[t].i)
          /\ StepW(t, ScanEnter(th[t], th[t].i + 1, FALSE, "lock"),
                   KeysOf(th[t].i), "del")
          /\ UNCHANGED <<calls, variant, shards, made, memhash, once, seq>>

\* the shard's lock is kept while Clear goes on to the next shard
ClearKeepsLock(t) ==
    /\ th[t].op = "Clear"
    /\ \/ /\ th[t].pc = "lock"
          /\ Lock(t, th[t].i)
       \/ /\ th[t].pc = "drain"
          /\ Drain(t, th[t].i)
       \/ /\ th[t].pc = "cs"
          /\ maps' = [maps EXCEPT ![th[t].i] = EmptyMap]
          /\ mus' = [mus EXCEPT ![th[t].i].x = TRUE]
          /\ StepW(t, ScanEnter(th[t], th[t].i + 1, FALSE, "lock"),
                   KeysOf(th[t].i), "del")
          /\ UNCHANGED <<calls, variant, shards, made, memhash, once, seq>>

\* m.mus[i].Lock(); m.maps[i] = make(map[string]interface{}, m.cap/m.shards);
\* m.mus[i].Unlock()
Clear(t) ==
    /\ th[t].op = "Clear"
    /\ \/ /\ th[t].pc = "lock"
          /\ Lock(t, th[t].i)
       \/ /\ th[t].pc = "drain"
          /\ Drain(t, th[t].i)
       \/ /\ th[t].pc = "cs"
          /\ maps' = [maps EXCEPT ![th[t].i] = EmptyMap]
          /\ UnlockMu(th[t].i)
          /\ StepW(t, ScanEnter(th[t], th[t].i + 1, FALSE, "lock"),
                   KeysOf(th[t].i), "del")
          /\ UNCHANGED <<calls, variant, shards, made, memhash, once, seq>>

\* the loop goes on whatever iter returns
RangeVisitIgnoresFalse(t) ==
    LET rest == (DOMAIN maps[th[t].i]) \ th[t].seen
    IN  \/ /\ rest # {}
           /\ \E k \in rest :
                Step(t, [Collect(th[t], k, maps[th[t].i][k])
                            EXCEPT !.seen = @ \cup {k}, !.l = @ + 1])
           /\ mus' = mus
        \/ /\ rest = {}
           /\ RUnlockMu(t, th[t].i)
           /\ Step(t, ScanEnter(th[t], th[t].i + 1, FALSE, "rlock"))

\* every entry is passed to iter twice
RangeVisitTwice(t) ==
    LET rest == (DOMAIN maps[th[t].i]) \ th[t].seen
    IN  \/ /\ rest # {}
           /\ \E k \in rest :
                LET r == Collect(th[t], k, maps[th[t].i][k])
                IN  IF IterCall(th[t].accept, th[t].l + 1)
                    THEN Step(t, [r EXCEPT !.seen = @ \cup {k}, !.l = @ + 2])
                    ELSE Step(t, [r EXCEPT !.seen = @ \cup {k}, !.l = @ + 1,
                                           !.done = TRUE, !.pc = "runlock"])
           /\ mus' = mus
        \/ /\ rest = {}
           /\ RUnlockMu(t, th[t].i)
           /\ Step(t, ScanEnter(th[t], th[t].i + 1, FALSE, "rlock"))

\* for key, value := range m.maps[i] { if !iter(key, value) { done = true; break } }
\* under the shard's read lock, one entry per step, in any order; th[t].l
\* counts the calls of iter; the deferred RUnlock ends the shard's turn
RangeVisit(t) ==
    LET rest == (DOMAIN maps[th[t].i]) \ th[t].seen
    IN  \/ /\ rest # {}
           /\ \E k \in rest :
                LET r == Collect(th[t], k, maps[th[t].i][k])
                IN  IF Panics(th[t].accept)
                    THEN Step(t, [r EXCEPT !.seen = @ \cup {k}, !.l = @ + 1,
                                           !.pc = "unwind"])
                    ELSE IF IterCall(th[t].accept, th[t].l + 1)
                    THEN Step(t, [r EXCEPT !.seen = @ \cup {k}, !.l = @ + 1])
                    ELSE Step(t, [r EXCEPT !.seen = @ \cup {k}, !.l = @ + 1,
                                           !.done = TRUE, !.pc = "runlock"])
           /\ mus' = mus
        \/ /\ rest = {}
           /\ RUnlockMu(t, th[t].i)
           /\ Step(t, ScanEnter(th[t], th[t].i + 1, FALSE, "rlock"))

Range(t) ==
    /\ th[t].op = "Range"
    /\ \/ /\ th[t].pc = "rlock"
          /\ RLock(t, th[t].i)
       \/ /\ th[t].pc = "cs"
          /\ RangeVisit(t)
          /\ UNCHANGED <<calls, variant, shards, maps, made, memhash, once, seq>>
       \/ /\ th[t].pc = "runlock"
          /\ RUnlockMu(t, th[t].i)
          /\ Step(t, ScanEnter(th[t], th[t].i + 1, th[t].done, "rlock"))
          /\ UNCHANGED <<calls, variant, shards, maps, made, memhash, once, seq>>
       \/ /\ th[t].pc = "unwind"
          /\ RUnlockMu(t, th[t].i)
          /\ Step(t, [th[t] EXCEPT !.pc = "panicked"])
          /\ UNCHANGED <<calls, variant, shards, maps, made, memhash, once, seq>>

\* ------------------------------------------------------------ lazy Map
\* New: return &Map{cap: cap}; nothing is built before the first operation
InitLazy ==
    /\ variant = "lazy"
    /\ shards = 0
    /\ mus = <<>>
    /\ maps = <<>>
    /\ made = {}
    /\ memhash \in HashFns
    /\ once = [done |-> 0, m |-> 0, runs |-> 0, by |-> 0]
    /\ th = [t \in Threads |-> Idle]
    /\ seq = <<>>
    /\ calls = [t \in Threads |-> Unlimited]

\* a goroutine calls one of the lazy Map's methods, which start with m.initDo()
CallLazy(t) ==
    /\ variant = "lazy"
    /\ th[t].pc = "idle"
    /\ Calling(t)
    /\ \/ \E k \in Keys, v \in Values :
            Step(t, [Idle EXCEPT !.pc = "once", !.op = "Store", !.key = k,
                                 !.value = v])
       \/ \E k \in Keys :
            Step(t, [Idle EXCEPT !.pc = "once", !.op = "Load", !.key = k])
       \/ \E k \in Keys, v \in Values :
            Step(t, [Idle EXCEPT !.pc = "once", !.op = "LoadOrStore", !.key = k,
                                 !.value = v])
       \/ \E k \in Keys :
            Step(t, [Idle EXCEPT !.pc = "once", !.op = "DeleteLazy", !.key = k])
       \/ \E f \in IterFns :
            Step(t, [Idle EXCEPT !.pc = "once", !.op = "RangeLazy", !.accept = f])
    /\ UNCHANGED <<variant, shards, mus, maps, made, memhash, once, seq>>

\* key is in no shard's map
Absent(key) == \A i \in DOMAIN maps : key \notin DOMAIN maps[i]

\* goroutines race on LoadOrStore while others Store and Delete; a LoadOrStore
\* called on a key that is absent follows the calls concurrent with it
CallLoadOrStore(t) ==
    /\ variant = "lazy"
    /\ th[t].pc = "idle"
    /\ Calling(t)
    /\ \/ \E k \in Keys, v \in Values :
            Step(t, [Idle EXCEPT !.pc = "once", !.op = "LoadOrStore", !.key = k,
                                 !.value = v,
                                 !.rt = IF Absent(k) THEN "absent" ELSE "none"])
       \/ \E k \in Keys, v \in Values :
            Step(t, [Idle EXCEPT !.pc = "once", !.op = "Store", !.key = k,
                                 !.value = v])
       \/ \E k \in Keys :
            Step(t, [Idle EXCEPT !.pc = "once", !.op = "DeleteLazy", !.key = k])
    /\ UNCHANGED <<variant, shards, mus, maps, made, memhash, once, seq>>

\* the statement after m.initDo(): shard := m.choose(key) and the lock call,
\* or Range's loop header; when choose panics the call ends with no lock taken
AfterInit(t) ==
    CASE th[t].op = "RangeLazy" -> ScanEnter(th[t], 0, FALSE, "rlock")
      [] chooseInterface(th[t].key) = NoShard -> [th[t] EXCEPT !.pc = "panicked"]
      [] th[t].op = "Load" ->
            [th[t] EXCEPT !.shard = chooseInterface(th[t].key), !.pc = "rlock",
                          !.i = 0]
      [] OTHER ->
            [th[t] EXCEPT !.shard = chooseInterface(th[t].key), !.pc = "lock",
                          !.i = 0]

\* Do returns at once also while another caller is still running the body
OnceFastNoWait == once.done = 1 \/ once.m # 0

\* m.init.Do: the fast path returns once the done flag is set
OnceFast == once.done = 1

\* m.initDo(): m.init.Do(func() { ... }), the body f one statement per step
initDo(t) ==
    /\ variant = "lazy"
    /\ \/ /\ th[t].pc = "once"
          /\ IF OnceFast
             THEN Step(t, AfterInit(t))
             ELSE Step(t, [th[t] EXCEPT !.pc = "oncelock"])
          /\ UNCHANGED <<calls, variant, shards, mus, maps, made, memhash, once, seq>>
       \/ /\ th[t].pc = "oncelock"
          /\ once.m = 0
          /\ once' = [once EXCEPT !.m = t]
          /\ Step(t, [th[t] EXCEPT !.pc = IF once.done = 0 THEN "f_shards"
                                                          ELSE "onceunlock"])
          /\ UNCHANGED <<calls, variant, shards, mus, maps, made, memhash, seq>>
       \/ /\ th[t].pc = "f_shards"
          /\ shards' = 1
          /\ once' = [once EXCEPT !.runs = @ + 1, !.by = t]
          /\ Step(t, [th[t] EXCEPT !.pc = "f_grow"])
          /\ UNCHANGED <<calls, variant, mus, maps, made, memhash, seq>>
       \/ /\ th[t].pc = "f_grow"
          /\ IF shards < NumCPU * ShardsPerCPU
             THEN shards' = shards * 2 /\ th' = th
             ELSE shards' = shards /\ Step(t, [th[t] EXCEPT !.pc = "f_mus"])
          /\ UNCHANGED <<calls, variant, mus, maps, made, memhash, once, seq>>
       \/ /\ th[t].pc = "f_mus"
          /\ mus' = [i \in 0..(shards - 1) |-> Unlocked]
          /\ Step(t, [th[t] EXCEPT !.pc = "f_maps"])
          /\ UNCHANGED <<calls, variant, shards, maps, made, memhash, once, seq>>
       \/ /\ th[t].pc = "f_maps"
          /\ maps' = [i \in 0..(shards - 1) |-> EmptyMap]
          /\ seq' = [i \in 0..(shards - 1) |-> EmptyMap]
          /\ made' = {}
          /\ Step(t, [th[t] EXCEPT !.pc = "f_make", !.i = 0])
          /\ UNCHANGED <<calls, variant, shards, mus, memhash, once>>
       \/ /\ th[t].pc = "f_make"
          /\ IF th[t].i \in DOMAIN maps
             THEN /\ maps' = [maps EXCEPT ![th[t].i] = EmptyMap]
                  /\ made' = made \cup {th[t].i}
                  /\ Step(t, [th[t] EXCEPT !.i = @ + 1])
             ELSE /\ UNCHANGED <<maps, made>>
                  /\ Step(t, [th[t] EXCEPT !.pc = "oncedone"])
          /\ UNCHANGED <<calls, variant, shards, mus, memhash, once, seq>>
       \/ /\ th[t].pc = "oncedone"
          /\ once' = [once EXCEPT !.done = 1]
          /\ Step(t, [th[t] EXCEPT !.pc = "onceunlock"])
          /\ UNCHANGED <<calls, variant, shards, mus, maps, made, memhash, seq>>
       \/ /\ th[t].pc = "onceunlock"
          /\ once' = [once EXCEPT !.m = 0]
          /\ Step(t, AfterInit(t))
          /\ UNCHANGED <<calls, variant, shards, mus, maps, made, memhash, seq>>

Store(t) ==
    /\ th[t].op = "Store"
    /\ \/ /\ th[t].pc = "lock"
          /\ Lock(t, th[t].shard)
       \/ /\ th[t].pc = "drain"
          /\ Drain(t, th[t].shard)
       \/ /\ th[t].pc = "cs"
          /\ IF Hashable(th[t].key)
             THEN /\ maps' = [maps EXCEPT ![th[t].shard] =
                                 MapSet(@, th[t].key, th[t].value)]
                  /\ StepW(t, [th[t] EXCEPT !.pc = "unlock"], {th[t].key}, "set")
             ELSE /\ maps' = maps
                  /\ Step(t, [th[t] EXCEPT !.pc = "panicked"])
          /\ UNCHANGED <<calls, variant, shards, mus, made, memhash, once, seq>>
       \/ /\ th[t].pc = "unlock"
          /\ UnlockMu(th[t].shard)
          /\ Step(t, Idle)
          /\ UNCHANGED <<calls, variant, shards, maps, made, memhash, once, seq>>

Load(t) ==
    /\ th[t].op = "Load"
    /\ \/ /\ th[t].pc = "rlock"
          /\ RLock(t, th[t].shard)
       \/ /\ th[t].pc = "cs"
          /\ IF Hashable(th[t].key)
             THEN GetRead(t)
             ELSE Step(t, [th[t] EXCEPT !.pc = "panicked"])
          /\ UNCHANGED <<calls, variant, shards, mus, maps, made, memhash, once, seq>>
       \/ /\ th[t].pc = "runlock"
          /\ RUnlockMu(t, th[t].shard)
          /\ Step(t, Idle)
          /\ UNCHANGED <<calls, variant, shards, maps, made, memhash, once, seq>>

\* the value is stored whether or not the key is present
LoadOrStoreAlwaysStores(t) ==
    LET s == th[t].shard
    IN  /\ maps' = [maps EXCEPT ![s] = MapSet(@, th[t].key, th[t].value)]
        /\ StepL(t, [th[t] EXCEPT !.prev = th[t].value, !.replaced = FALSE,
                                  !.pc = "unlock"],
                 th[t].key, <<th[t].value, FALSE>>)

\* actual, loaded = m.maps[shard][key]; if loaded { return actual, true };
\* m.maps[shard][key] = value; return value, false
LoadOrStoreBody(t) ==
    LET s == th[t].shard
        old == MapGet(maps[s], th[t].key)
    IN  IF old[2]
        THEN /\ maps' = maps
             /\ StepL(t, [th[t] EXCEPT !.prev = old[1], !.replaced = TRUE,
                                       !.pc = "unlock"],
                      th[t].key, <<old[1], TRUE>>)
        ELSE /\ maps' = [maps EXCEPT ![s] = MapSet(@, th[t].key, th[t].value)]
             /\ StepL(t, [th[t] EXCEPT !.prev = th[t].value, !.replaced = FALSE,
                                       !.pc = "unlock"],
                      th[t].key, <<th[t].value, FALSE>>)

LoadOrStore(t) ==
    /\ th[t].op = "LoadOrStore"
    /\ \/ /\ th[t].pc = "lock"
          /\ Lock(t, th[t].shard)
       \/ /\ th[t].pc = "drain"
          /\ Drain(t, th[t].shard)
       \/ /\ th[t].pc = "cs"
          /\ IF Hashable(th[t].key)
             THEN LoadOrStoreBody(t)
             ELSE /\ maps' = maps
                  /\ Step(t, [th[t] EXCEPT !.pc = "unwind"])
          /\ UNCHANGED <<calls, variant, shards, mus, made, memhash, once, seq>>
       \/ /\ th[t].pc = "unlock"
          /\ UnlockMu(th[t].shard)
          /\ Step(t, Idle)
          /\ UNCHANGED <<calls, variant, shards, maps, made, memhash, once, seq>>
       \/ /\ th[t].pc = "unwind"
          /\ UnlockMu(th[t].shard)
          /\ Step(t, [th[t] EXCEPT !.pc = "panicked"])
          /\ UNCHANGED <<calls, variant, shards, maps, made, memhash, once, seq>>

DeleteLazy(t) ==
    /\ th[t].op = "DeleteLazy"
    /\ \/ /\ th[t].pc = "lock"
          /\ Lock(t, th[t].shard)
       \/ /\ th[t].pc = "drain"
          /\ Drain(t, th[t].shard)
       \/ /\ th[t].pc = "cs"
          /\ IF Hashable(th[t].key)
             THEN /\ maps' = [maps EXCEPT ![th[t].shard] = MapDelete(@, th[t].key)]
                  /\ StepW(t, [th[t] EXCEPT !.pc = "unlock"], {th[t].key}, "del")
             ELSE /\ maps' = maps
                  /\ Step(t, [th[t] EXCEPT !.pc = "panicked"])
          /\ UNCHANGED <<calls, variant, shards, mus, made, memhash, once, seq>>
       \/ /\ th[t].pc = "unlock"
          /\ UnlockMu(th[t].shard)
          /\ Step(t, Idle)
          /\ UNCHANGED <<calls, variant, shards, maps, made, memhash, once, seq>>

RangeLazy(t) ==
    /\ th[t].op = "RangeLazy"
    /\ \/ /\ th[t].pc = "rlock"
          /\ RLock(t, th[t].i)
       \/ /\ th[t].pc = "cs"
          /\ RangeVisit(t)
          /\ UNCHANGED <<calls, variant, shards, maps, made, memhash, once, seq>>
       \/ /\ th[t].pc = "runlock"
          /\ RUnlockMu(t, th[t].i)
          /\ Step(t, ScanEnter(th[t], th[t].i + 1, th[t].done, "rlock"))
          /\ UNCHANGED <<calls, variant, shards, maps, made, memhash, once, seq>>
       \/ /\ th[t].pc = "unwind"
          /\ RUnlockMu(t, th[t].i)
          /\ Step(t, [th[t] EXCEPT !.pc = "panicked"])
          /\ UNCHANGED <<calls, variant, shards, maps, made, memhash, once, seq>>

\* ------------------------------------------------------------ panics
\* a call ends at pc "panicked" when a panic leaves it: raised by choose, by
\* the per-shard Go map, by the accept predicate or by the Range visitor.
\* The deferred Unlock / RUnlock of SetAccept, DeleteAccept, LoadOrStore and
\* Range runs on the way out (pc "unwind"); Store, Load and Delete of the
\* interface{} Map defer nothing.

\* the caller recovers from the panic and goes on
Recover(t) ==
    /\ th[t].pc = "panicked"
    /\ Step(t, Idle)
    /\ UNCHANGED <<calls, variant, shards, mus, maps, made, memhash, once, seq>>

\* a map of either type, used by programs that make MaxCalls calls per thread
InitAbort ==
    \/ InitFilled
    \/ /\ variant = "lazy"
       /\ shards = 0
       /\ mus = <<>>
       /\ maps = <<>>
       /\ made = {}
       /\ memhash \in HashFns
       /\ once = [done |-> 0, m |-> 0, runs |-> 0, by |-> 0]
       /\ th = [t \in Threads |-> Idle]
       /\ seq = <<>>
       /\ calls = [t \in Threads |-> MaxCalls]

\* a goroutine calls a method with arguments that may make it panic: a key
\* of any type, an accept predicate or a visitor that may panic
CallAbort(t) ==
    /\ th[t].pc = "idle"
    /\ Calling(t)
    /\ \/ /\ variant = "lazy"
          /\ \/ \E k \in Keys \cup ByteKeys \cup Unsupported, v \in Values,
                   o \in {"Store", "LoadOrStore"} :
                    Step(t, [Idle EXCEPT !.pc = "once", !.op = o, !.key = k,
                                         !.value = v])
             \/ \E k \in Keys \cup ByteKeys \cup Unsupported,
                   o \in {"Load", "DeleteLazy"} :
                    Step(t, [Idle EXCEPT !.pc = "once", !.op = o, !.key = k])
             \/ \E f \in IterFns \cup PanicFns :
                    Step(t, [Idle EXCEPT !.pc = "once", !.op = "RangeLazy",
                                         !.accept = f])
       \/ /\ variant = "string"
          /\ \/ \E k \in Keys, v \in Values, f \in AcceptFns \cup PanicFns :
                    Step(t, [Idle EXCEPT !.pc = "lock", !.op = "SetAccept",
                                         !.key = k, !.value = v, !.accept = f,
                                         !.shard = choose(k)])
             \/ \E k \in Keys, f \in AcceptFns \cup PanicFns :
                    Step(t, [Idle EXCEPT !.pc = "lock", !.op = "DeleteAccept",
                                         !.key = k, !.accept = f,
                                         !.shard = choose(k)])
             \/ \E f \in IterFns \cup PanicFns :
                    Step(t, ScanEnter([Idle EXCEPT !.op = "Range", !.accept = f],
                                      0, FALSE, "rlock"))
    /\ UNCHANGED <<variant, shards, mus, maps, made, memhash, once, seq>>

\* ------------------------------------------------------------ specifications
KeyStep(t) ==
    \/ CallKey(t)
    \/ Set(t)
    \/ SetAccept(t)
    \/ Get(t)
    \/ Delete(t)
    \/ DeleteAccept(t)

ScanStep(t) ==
    \/ CallScan(t)
    \/ Len(t)
    \/ Clear(t)
    \/ Range(t)

LazyStep(t) ==
    \/ CallLazy(t)
    \/ initDo(t)
    \/ Store(t)
    \/ Load(t)
    \/ LoadOrStore(t)
    \/ DeleteLazy(t)
    \/ RangeLazy(t)

Init == InitString

\* the string Map under concurrent single-key operations
Next == \E t \in Threads : KeyStep(t)

Spec == Init /\ [][Next]_vars

\* the string Map under all of its operations
NextScan == \E t \in Threads : KeyStep(t) \/ ScanStep(t)

SpecScan == Init /\ [][NextScan]_vars

\* the lazily initialised Map
NextLazy == \E t \in Threads : LazyStep(t)

SpecLazy == InitLazy /\ [][NextLazy]_vars

\* the lazily initialised Map under racing LoadOrStore, Store and Delete
NextLoadOrStore ==
    \E t \in Threads :
        \/ CallLoadOrStore(t)
        \/ initDo(t)
        \/ Store(t)
        \/ LoadOrStore(t)
        \/ DeleteLazy(t)

SpecLoadOrStore == InitLazy /\ [][NextLoadOrStore]_vars

\* Range with collecting visitors over a filled map, next to Set and Delete
\* (and the Get a caller may make after them)
NextRange ==
    \E t \in Threads :
        \/ CallRange(t)
        \/ Set(t)
        \/ Delete(t)
        \/ Get(t)
        \/ Range(t)

SpecRange == InitFilled /\ [][NextRange]_vars

\* the string Map used by a single goroutine
SpecSingle == InitSingle /\ [][NextScan]_vars

\* Clear over a filled map, next to Set and SetAccept (and the Get a caller
\* may make after its Set)
NextClear ==
    \E t \in Threads :
        \/ CallClear(t)
        \/ Set(t)
        \/ SetAccept(t)
        \/ Get(t)
        \/ Clear(t)

SpecClear == InitFilled /\ [][NextClear]_vars

\* the string Map used by programs some of whose predicates call back
NextReenter ==
    \E t \in Threads :
        \/ CallReentrant(t)
        \/ Reenter(t)
        \/ KeyStep(t)
        \/ ScanStep(t)

SpecReenter == InitBounded /\ [][NextReenter]_vars

\* either Map
\* calls that may panic, on a map of either type
NextAbort ==
    \E t \in Threads :
        \/ CallAbort(t)
        \/ initDo(t)
        \/ Store(t)
        \/ Load(t)
        \/ LoadOrStore(t)
        \/ DeleteLazy(t)
        \/ RangeLazy(t)
        \/ SetAccept(t)
        \/ DeleteAccept(t)
        \/ Range(t)
        \/ Recover(t)

SpecAbort == InitAbort /\ [][NextAbort]_vars

NextAll == \E t \in Threads : KeyStep(t) \/ ScanStep(t) \/ LazyStep(t)

SpecAll == (InitString \/ InitLazy) /\ [][NextAll]_vars

\* the steps of an operation of the string Map once it has been called
Run(t) ==
    \/ Set(t)
    \/ SetAccept(t)
    \/ Get(t)
    \/ Delete(t)
    \/ DeleteAccept(t)
    \/ Len(t)
    \/ Clear(t)
    \/ Range(t)

\* the string Map under fair scheduling, each thread making MaxCalls calls:
\* a goroutine whose next step stays possible takes it
FairSpec == InitBounded /\ [][NextScan]_vars /\ \A t \in Threads : WF_vars(Run(t))

\* ------------------------------------------------------------ claims
\* the operation of thread t has left its critical section's last statement
\* and is about to unlock and return <<prev, replaced>>
AtReturn(t, op) == th[t].op = op /\ th[t].pc = "unlock"

\* what the shard held for the operation's key when it was granted the lock
Before(r) == MapGet(r.snap, r.key)

\* the operation's predicate is not nil and returns false on what was there
Rejecting(r) == ~Accepted(r.accept, Before(r)[1], Before(r)[2])

\* C1: a SetAccept whose predicate returns false leaves its shard (the key
\* and every other key) as it was when the call was granted the lock, also
\* when the previous value is nil, and returns (nil, false).
C1_SetAcceptRejectedIsNoop ==
    \A t \in Threads :
        (AtReturn(t, "SetAccept") /\ Rejecting(th[t])) =>
            /\ maps[th[t].shard] = th[t].snap
            /\ th[t].prev = Nil
            /\ th[t].replaced = FALSE

\* a rejected SetAccept of a non-nil value over a key mapped to nil, with the
\* shard's other key present
C1_Witness ==
    \E t \in Threads :
        /\ AtReturn(t, "SetAccept") /\ Rejecting(th[t])
        /\ th[t].value # Nil
        /\ DOMAIN th[t].snap = Keys
        /\ th[t].snap[th[t].key] = Nil

\* C2: a DeleteAccept whose predicate returns false leaves the key mapped to
\* its previous value when it had one and absent when it had none, and
\* returns (nil, false).
C2_DeleteAcceptRejectedRestores ==
    \A t \in Threads :
        (AtReturn(t, "DeleteAccept") /\ Rejecting(th[t])) =>
            /\ MapGet(maps[th[t].shard], th[t].key) = Before(th[t])
            /\ th[t].prev = Nil
            /\ th[t].replaced = FALSE

\* a rejected DeleteAccept of a key that was present with a non-nil value
C2_Witness ==
    \E t \in Threads :
        /\ AtReturn(t, "DeleteAccept") /\ Rejecting(th[t])
        /\ Before(th[t])[2] /\ Before(th[t])[1] # Nil

\* C3: Set returns what the key was mapped to when Set was granted the lock
\* ((old, true), or (nil, false) for an absent key) and has installed the
\* value in the same critical section.
C3_SetReturnsPrevious ==
    \A t \in Threads :
        AtReturn(t, "Set") =>
            /\ <<th[t].prev, th[t].replaced>> = Before(th[t])
            /\ maps[th[t].shard] = MapSet(th[t].snap, th[t].key, th[t].value)

\* a Set over an earlier Set of another value: it returns (v1, true)
C3_Witness ==
    \E t \in Threads :
        /\ AtReturn(t, "Set")
        /\ th[t].replaced /\ th[t].prev # Nil /\ th[t].prev # th[t].value

\* the Get of thread t that follows the caller's returned op (Set or Delete)
\* of the same key has read the key
GetAfterRead(t, op) ==
    th[t].op = "Get" /\ th[t].rt = op /\ th[t].pc = "runlock"

\* C4 as stated: after Set(k, v) has returned, Get(k) returns (v, true)
\* unless a Delete or Clear intervened.
C4_Original ==
    \A t \in Threads :
        (GetAfterRead(t, "Set") /\ "del" \notin th[t].mark) =>
            <<th[t].prev, th[t].replaced>> = <<th[t].value, TRUE>>

\* C4 amended: after Set(k, v) has returned, Get(k) returns (v, true) unless
\* another write to k was committed in between: a Delete, an accepted
\* DeleteAccept or a Clear, or a Set or an accepted SetAccept.
C4_SetGetRoundTrip ==
    \A t \in Threads :
        (GetAfterRead(t, "Set") /\ th[t].mark = {}) =>
            <<th[t].prev, th[t].replaced>> = <<th[t].value, TRUE>>

\* a Get after a Set of a non-nil value, with another thread at work and no
\* write in between
C4_Witness ==
    \E t \in Threads :
        /\ GetAfterRead(t, "Set") /\ th[t].mark = {}
        /\ th[t].value # Nil
        /\ \E u \in Threads \ {t} : th[u].pc # "idle"

\* C5: Delete returns (old, true) and removes the key when it was mapped to
\* old, and returns (nil, false) and changes nothing when it was absent; a
\* Get after the Delete has returned, with no Set of the key in between,
\* returns (nil, false).
C5_DeleteRemoves ==
    \A t \in Threads :
        /\ AtReturn(t, "Delete") =>
            /\ <<th[t].prev, th[t].replaced>> = Before(th[t])
            /\ maps[th[t].shard] = MapDelete(th[t].snap, th[t].key)
            /\ ~Before(th[t])[2] => maps[th[t].shard] = th[t].snap
        /\ (GetAfterRead(t, "Delete") /\ "set" \notin th[t].mark) =>
            <<th[t].prev, th[t].replaced>> = <<Nil, FALSE>>

\* a Get that follows the Delete of a key that another thread has deleted
\* again in the meantime
C5_Witness ==
    \E t \in Threads : GetAfterRead(t, "Delete") /\ th[t].mark = {"del"}

KeyOps == {"Set", "SetAccept", "Get", "Delete", "DeleteAccept"}

\* C6: the single-key operations are linearizable in lock-acquisition order:
\* each call returns what the sequential map returned when the call was
\* granted the lock, and a shard no writer is working in holds what the
\* sequential map holds.
C6_Linearizable ==
    /\ \A t \in Threads :
          (th[t].op \in KeyOps /\ th[t].pc \in {"unlock", "runlock"}) =>
              <<th[t].prev, th[t].replaced>> = th[t].exp
    /\ \A i \in DOMAIN mus :
          (\A t \in Threads : HoldsX(t, i) => th[t].pc = "unlock") =>
              maps[i] = seq[i]

\* a writer that has replaced a value while another operation waits for the
\* same shard
C6_Witness ==
    \E t \in Threads, u \in Threads :
        /\ t # u
        /\ AtReturn(t, "SetAccept") /\ th[t].replaced
        /\ th[u].pc \in {"lock", "rlock"} /\ th[u].shard = th[t].shard
        /\ th[u].key = th[t].key

WriteOps == {"Set", "SetAccept", "Delete", "DeleteAccept", "Clear",
             "Store", "LoadOrStore", "DeleteLazy"}

ReadOps == {"Get", "Load", "Range", "RangeLazy", "Len"}

\* thread t's next step writes shard i's storage
Mutating(t, i) ==
    th[t].op \in WriteOps /\ th[t].pc \in {"cs", "accept"} /\ th[t].shard = i

\* thread t's next step reads shard i's storage
Reading(t, i) ==
    th[t].op \in ReadOps /\ th[t].pc = "cs" /\ th[t].shard = i

\* C7: a thread about to write shard i's storage holds shard i's lock
\* exclusively and no thread holds it shared; a thread about to read it
\* holds the lock, and nobody else holds it exclusively.
C7_NoDataRace ==
    \A t \in Threads : \A i \in DOMAIN mus :
        /\ Mutating(t, i) => (HoldsX(t, i) /\ mus[i].r = {})
        /\ Reading(t, i) =>
              /\ HoldsR(t, i) \/ HoldsX(t, i)
              /\ mus[i].x => mus[i].w = t

\* two readers inside the same shard while a writer has announced itself
C7_Witness ==
    \E t \in Threads, u \in Threads : \E i \in DOMAIN mus :
        /\ t # u
        /\ Reading(t, i) /\ HoldsR(t, i)
        /\ th[u].op \in WriteOps /\ th[u].pc = "drain" /\ th[u].shard = i

\* C8: while a SetAccept or DeleteAccept has made its tentative change and
\* not yet decided, it holds the shard exclusively and no other thread is
\* inside that shard (none reads or writes it, none has read it and not yet
\* left).
C8_TentativeIsolated ==
    \A t \in Threads :
        th[t].pc = "accept" =>
            /\ HoldsX(t, th[t].shard)
            /\ mus[th[t].shard].r = {}
            /\ \A u \in Threads \ {t} :
                  ~(/\ th[u].shard = th[t].shard
                    /\ th[u].pc \in {"cs", "accept", "unlock", "runlock"})

\* a tentative write that will be rejected while a Get of the same key and
\* a Len wait for the shard
C8_Witness ==
    \E t \in Threads, u \in Threads :
        /\ t # u
        /\ th[t].pc = "accept" /\ th[t].op = "SetAccept" /\ Rejecting(th[t])
        /\ th[u].pc \in {"lock", "rlock"} /\ th[u].shard = th[t].shard
        /\ th[u].op \in {"Get", "Range", "Len"}

\* the shard table is fully built
InitComplete ==
    /\ once.done = 1
    /\ shards = initShards
    /\ DOMAIN mus = 0..(shards - 1)
    /\ DOMAIN maps = 0..(shards - 1)
    /\ made = 0..(shards - 1)

\* C10: the construction body runs at most once, and a thread that is past
\* m.initDo() finds the shard table fully built and its shard in it.
C10_InitOnce ==
    /\ once.runs <= 1
    /\ \A t \in Threads :
          th[t].pc \in {"lock", "drain", "rlock", "cs", "unlock", "runlock"} =>
              /\ InitComplete
              /\ th[t].shard \in DOMAIN mus

\* a first operation that found the table not built, waited in Do while
\* another thread built it, and now leaves Do without having run the body
C10_Witness ==
    \E u \in Threads :
        /\ th[u].pc = "onceunlock"
        /\ once.runs = 1 /\ once.by # u
        /\ InitComplete

\* C9: under fair scheduling every operation that was called returns (so no
\* state has every thread blocked on a lock for ever).
C9_EveryCallReturns ==
    \A t \in Threads : (th[t].pc # "idle") ~> (th[t].pc = "idle")

\* a writer that has announced itself waits for a Range to leave the shard,
\* while new readers are held back
C9_Witness ==
    \E t \in Threads, u \in Threads :
        /\ t # u
        /\ th[t].pc = "drain"
        /\ th[u].op = "Range" /\ HoldsR(u, th[t].shard)
        /\ calls[t] = 0

\* the results of the LoadOrStore calls on th[t].key whose critical sections
\* fell inside thread t's call, its own among them
Results(t) == th[t].seen \cup {<<t, th[t].prev, th[t].replaced>>}

\* thread t's LoadOrStore, called on an absent key, is about to return
RacedLoadOrStore(t) == AtReturn(t, "LoadOrStore") /\ th[t].rt = "absent"

\* exactly one of the results rs has loaded = false, and all of them carry
\* the value that call stored
OneStored(rs) ==
    /\ Cardinality({x \in rs : ~x[3]}) = 1
    /\ \A x \in rs, y \in rs : x[2] = y[2]

\* LoadOrStore finds the key present: (existing, true), the shard unchanged;
\* or absent: (value, false), the value stored
CheckThenAct(t) ==
    IF Before(th[t])[2]
    THEN /\ <<th[t].prev, th[t].replaced>> = <<Before(th[t])[1], TRUE>>
         /\ maps[th[t].shard] = th[t].snap
    ELSE /\ <<th[t].prev, th[t].replaced>> = <<th[t].value, FALSE>>
         /\ maps[th[t].shard] = MapSet(th[t].snap, th[t].key, th[t].value)

\* C11 as stated: among the concurrent LoadOrStore calls on an absent key,
\* with no concurrent Delete, exactly one returns loaded = false and all
\* return that call's value.
C11_Original ==
    \A t \in Threads :
        (RacedLoadOrStore(t) /\ "del" \notin th[t].mark) => OneStored(Results(t))

\* C11 amended: LoadOrStore is an atomic check-then-act, and among the
\* concurrent LoadOrStore calls on an absent key, with no concurrent Delete
\* and no concurrent Store of the key, exactly one returns loaded = false and
\* all return that call's value.
C11_LoadOrStoreAtomic ==
    \A t \in Threads :
        /\ AtReturn(t, "LoadOrStore") => CheckThenAct(t)
        /\ (RacedLoadOrStore(t) /\ th[t].mark = {}) => OneStored(Results(t))

\* a LoadOrStore called on an absent key that lost the race to a concurrent
\* LoadOrStore of another value and returns that value
C11_Witness ==
    \E t \in Threads :
        /\ RacedLoadOrStore(t) /\ th[t].mark = {}
        /\ th[t].replaced /\ th[t].prev # th[t].value
        /\ \E x \in th[t].seen : ~x[3] /\ x[2] = th[t].prev

\* thread t is inside a call of Range
Ranging(t) == th[t].op = "Range" /\ th[t].pc # "idle"

\* the visitor returns false at its first call
Stops(f) == f \in {"first", "collectFirst"}

\* thread t's Range has passed every entry of the last shard to the visitor
\* and is about to return
AtEnd(t) ==
    /\ th[t].pc = "cs" /\ th[t].i = shards - 1
    /\ DOMAIN maps[th[t].i] \subseteq th[t].seen

\* the keys present in the map
Present == {k \in Keys : \E i \in DOMAIN maps : k \in DOMAIN maps[i]}

C12_State ==
    \A t \in Threads :
        Ranging(t) =>
            /\ th[t].done => (th[t].pc = "runlock" /\ HoldsR(t, th[t].i))
            /\ Stops(th[t].accept) => (th[t].l <= 1 /\ (th[t].done <=> th[t].l = 1))
            /\ (th[t].quiet /\ Stops(th[t].accept) /\ Present # {}) => ~AtEnd(t)

C12_Step ==
    \A t \in Threads :
        (Ranging(t) /\ th[t].done /\ th'[t].pc # th[t].pc) =>
            /\ th'[t].pc = "idle"
            /\ \A i \in DOMAIN mus' : ~(t \in mus'[i].r) /\ mus'[i].w # t

\* C12: once the visitor has returned false, Range calls it no more, enters
\* no further shard, and its next step releases the shard's lock and returns;
\* a visitor that returns false at its first call is called at most once,
\* and exactly once when the map is quiescent and not empty.
C12_RangeShortCircuit == []C12_State /\ [][C12_Step]_vars

\* a visitor has returned false on a quiescent map, in a shard that holds a
\* second entry, with shards left to visit
C12_Witness ==
    \E t \in Threads :
        /\ Ranging(t) /\ th[t].done /\ th[t].quiet
        /\ Cardinality(DOMAIN maps[th[t].i]) = 2
        /\ th[t].i < shards - 1

\* C13: during one Range no key is passed to the visitor twice, also while
\* keys are stored and deleted concurrently; on a quiescent map a visitor
\* that always returns true has been passed, when Range returns, every
\* present key once with its current value.
C13_RangeVisitsOnce ==
    \A t \in Threads :
        (Ranging(t) /\ th[t].accept \in CollectFns) =>
            /\ th[t].l = Cardinality({x[1] : x \in th[t].visited})
            /\ (th[t].quiet /\ th[t].accept = "collect" /\ AtEnd(t)) =>
                  th[t].visited = {<<k, maps[choose(k)][k]>> : k \in Present}

\* a Range that has been passed both keys, one of which another goroutine
\* has overwritten or deleted since
C13_Witness ==
    \E t \in Threads :
        /\ Ranging(t) /\ th[t].accept = "collect" /\ th[t].l = 2
        /\ \E x \in th[t].visited :
              MapGet(maps[choose(x[1])], x[1]) # <<x[2], TRUE>>

\* Get(k) would return found = true
Found(k) == MapGet(maps[choose(k)], k)[2]

\* thread t is inside a call of Len, between two shards or inside one
Counting(t) == th[t].op = "Len" /\ th[t].pc \in {"lock", "drain", "cs"}

\* C14: in a single-threaded execution Len has counted, shard by shard, the
\* keys Get finds in the shards it has passed, and the value it is about to
\* return is the number of distinct keys for which Get returns found = true.
C14_LenCountsKeys ==
    \A t \in Threads :
        Counting(t) =>
            /\ th[t].l = Cardinality({k \in Keys : Found(k) /\ choose(k) < th[t].i})
            /\ (th[t].pc = "cs" /\ th[t].i = shards - 1) =>
                  th[t].l + MapLen(maps[th[t].i]) = Cardinality({k \in Keys : Found(k)})

\* Len about to return 2 for two keys stored in different shards
C14_Witness ==
    \E t \in Threads :
        /\ th[t].op = "Len" /\ th[t].pc = "cs" /\ th[t].i = shards - 1
        /\ th[t].l = 2
        /\ \E k \in Keys, j \in Keys : choose(k) # choose(j)

\* no thread but t holds shard i's lock or has announced itself as its writer
Uncontended(t, i) == mus[i].w \in {0, t} /\ mus[i].r \subseteq {t}

\* C15: a single-key operation whose shard's lock no other thread holds or
\* waits for can take its next step (acquire the lock, run its critical
\* section, release the lock and return), whatever the state of the other
\* shards' locks, also while another thread sits in an accept predicate with
\* another shard's lock held; once it holds the lock, nothing blocks it.
C15_ShardsIndependent ==
    \A t \in Threads :
        /\ (th[t].op \in KeyOps /\ th[t].pc # "idle"
                /\ Uncontended(t, th[t].shard)) => ENABLED KeyStep(t)
        /\ (th[t].op \in KeyOps
                /\ th[t].pc \in {"cs", "accept", "unlock", "runlock"})
                => ENABLED KeyStep(t)

\* a writer about to lock a free shard while another thread is inside the
\* accept predicate of a SetAccept on another shard
C15_Witness ==
    \E t \in Threads, u \in Threads :
        /\ t # u
        /\ th[t].op \in {"Set", "Delete"} /\ th[t].pc = "lock"
        /\ Uncontended(t, th[t].shard)
        /\ th[u].op = "SetAccept" /\ th[u].pc = "accept"
        /\ th[u].shard # th[t].shard

\* the shards whose lock thread t holds, shared or exclusive, or has
\* announced itself on as a writer
Held(t) == {i \in DOMAIN mus : mus[i].w = t \/ t \in mus[i].r}

ScanOps == {"Len", "Clear", "Range"}

C16_State ==
    \A t \in Threads :
        /\ Cardinality(Held(t)) <= 1
        /\ Held(t) \subseteq {th[t].shard}
        /\ th[t].pc = "idle" => Held(t) = {}
        /\ (th[t].op \in KeyOps /\ th[t].pc # "idle") =>
              th[t].shard = choose(th[t].key)
        /\ (th[t].op \in ScanOps /\ th[t].pc # "idle") => th[t].shard = th[t].i

C16_Step ==
    \A t \in Threads :
        (/\ th[t].op \in ScanOps /\ th[t].pc # "idle"
         /\ th'[t].pc # "idle" /\ th'[t].i # th[t].i) =>
            /\ th'[t].i = th[t].i + 1
            /\ mus'[th[t].i].w # t /\ ~(t \in mus'[th[t].i].r)

\* C16: a thread holds at most one shard lock, and only its operation's
\* shard's: a single-key operation the shard of its key; Range, Len and
\* Clear the shard they are at, which they leave with no lock held for the
\* shard of the next index.
C16_OneLockPerThread == []C16_State /\ [][C16_Step]_vars

\* a Clear that holds a later shard while another scan holds an earlier one
C16_Witness ==
    \E t \in Threads, u \in Threads :
        /\ th[t].op = "Clear" /\ HoldsX(t, th[t].i) /\ th[t].i > 0
        /\ th[u].op \in {"Range", "Len"} /\ Held(u) # {}
        /\ th[u].i < th[t].i

\* the shard table has been built: by New, or by the body of m.init.Do
Built == variant = "string" \/ once.done = 1

IsPowerOfTwo(n) == n >= 1 /\ growShards(1, n) = n

\* the operations that start with shard := m.choose(key)
RoutedOps == KeyOps \cup {"Store", "Load", "LoadOrStore", "DeleteLazy"}

Clearing(t) == th[t].op = "Clear" /\ th[t].rt = "clear" /\ th[t].pc # "idle"

C18_State ==
    \A t \in Threads :
        Clearing(t) =>
            \A k \in Keys :
                (choose(k) < th[t].i /\ Found(k)) => k \in th[t].reset

C18_Step ==
    \A t \in Threads :
        (Clearing(t) /\ th'[t].pc = "idle") =>
            /\ \A k \in Keys : Found(k)' => k \in th[t].reset
            /\ th[t].quiet => \A i \in DOMAIN maps' : maps'[i] = EmptyMap

\* C18: Clear empties the shards one after the other: a key found in a
\* shard Clear has passed, and any key found when Clear returns, is the key
\* of a Set or SetAccept that was granted the shard's lock after Clear had
\* cleared that shard; with no concurrent writers every shard is empty when
\* Clear returns.
C18_ClearShardByShard == []C18_State /\ [][C18_Step]_vars

\* a shard Clear has cleared holds a new entry while Clear has further
\* shards to clear
C18_Witness ==
    \E t \in Threads : \E k \in Keys :
        /\ Clearing(t) /\ th[t].i < shards - 1
        /\ choose(k) < th[t].i /\ Found(k) /\ k \in th[t].reset
        /\ \E j \in Keys : choose(j) >= th[t].i /\ Found(j)

\* thread t's predicate has called a method that asks for the lock of the
\* shard the predicate runs under
Reentered(t) ==
    /\ th[t].pc = "accept" /\ th[t].inner # "none" /\ th[t].ipc = "lock"
    /\ InnerShard(th[t]) = th[t].shard

\* thread u's operation is at the lock call for shard i
AsksFor(u, i) ==
    /\ th[u].pc \in {"lock", "rlock", "drain"}
    /\ th[u].shard = i

\* any step of thread t
ThreadStep(t) == CallReentrant(t) \/ Reenter(t) \/ KeyStep(t) \/ ScanStep(t)

C19_State ==
    \A t \in Threads :
        Reentered(t) =>
            /\ HoldsX(t, th[t].shard)
            /\ ~ENABLED ThreadStep(t)
            /\ \A u \in Threads \ {t} :
                  AsksFor(u, th[t].shard) => ~ENABLED ThreadStep(u)

C19_Step ==
    \A t \in Threads : Reentered(t) => (Reentered(t)' /\ HoldsX(t, th[t].shard)')

\* C19: a predicate of SetAccept or DeleteAccept that calls a method needing
\* the lock of its own shard never gets it: from then on the thread has no
\* step and keeps the shard's exclusive lock, and no operation that asks for
\* that shard's lock gets it either.
C19_ReentryDeadlocks == []C19_State /\ [][C19_Step]_vars

\* a predicate whose Len has reached the shard it runs under, with a Get of
\* another thread waiting for that shard
C19_Witness ==
    \E t \in Threads, u \in Threads :
        /\ t # u
        /\ Reentered(t) /\ th[t].inner = "Len" /\ th[t].ii > 0
        /\ th[u].op = "Get" /\ AsksFor(u, th[t].shard)

\* thread t's call has ended: it has returned, or a panic has left it
Ended(t) == th[t].pc \in {"idle", "panicked"}

\* thread t's call has made its last access to its shard and still has the
\* shard's lock
Finishing(t) ==
    /\ th[t].pc \in {"unlock", "runlock", "unwind", "panicked"}
    /\ th[t].shard \in Held(t)

\* the shard as it was when the call got the lock, and as the completed
\* operation leaves it
Outcomes(r) == {r.snap, SeqApply(r, r.snap)[1]}

\* the methods of the interface{} Map that unlock without defer
NoDefer == {"Store", "Load", "DeleteLazy"}

\* a call that has ended holds no shard lock
C20_Locks == \A t \in Threads : Ended(t) => Held(t) = {}

\* a call that ends leaves its shard as it found it or as the completed
\* operation leaves it
C20_Contents ==
    \A t \in Threads : Finishing(t) => maps[th[t].shard] \in Outcomes(th[t])

\* C20: whenever a map operation ends, by returning or by a panic (of an
\* accept predicate, of a Range visitor, of choose on an unsupported key, or
\* of the per-shard Go map on a []byte key inside Store, Load, LoadOrStore or
\* Delete), the calling thread holds no shard lock and the shard's contents
\* are the state before the call or the state of the completed operation.
C20_Original == C20_Locks /\ C20_Contents

\* where the code does what C20 says: the panics that leave SetAccept,
\* DeleteAccept, LoadOrStore, Range or choose leave no lock behind
C20_DeferredUnlock ==
    \A t \in Threads :
        (th[t].pc = "panicked" /\ th[t].op \notin NoDefer) => Held(t) = {}

\* where it does not: a Store, Load or Delete that the Go map's panic on a
\* []byte key has left keeps its shard's lock
C20_PanicKeepsLock ==
    \A t \in Threads :
        (th[t].pc = "panicked" /\ th[t].op \in NoDefer /\ ~Hashable(th[t].key))
            => IF th[t].op = "Load" THEN HoldsR(t, th[t].shard)
               ELSE HoldsX(t, th[t].shard)

\* a Store on a []byte key has panicked, its caller has recovered, and another
\* thread's call waits for the lock the Store has left locked
C20_Leaked ==
    \E t \in Threads, u \in Threads :
        /\ t # u
        /\ th[t].pc = "idle" /\ calls[t] = 0
        /\ \E i \in DOMAIN mus :
              /\ HoldsX(t, i)
              /\ AsksFor(u, i) /\ th[u].key \in Keys
====
